---------------------------- MODULE Spec2Model ----------------------------
(***************************************************************************)
(* Model of the Time Tracker plugin (src/main.ts): the tracking session,   *)
(* the per-note ledger settings.timeTracking, the log block written into   *)
(* the focused editor, the asynchronous saves and the status bar.          *)
(*                                                                         *)
(* Text is a sequence of atoms.  An atom is one character ("#", " ", "|",  *)
(* "-", ":", "\n", a digit) or a word without "#", blank or newline, so    *)
(* that String.includes on the text is subsequence search on the atoms.    *)
(* A nullable field (number | null, string | null) is a sequence of        *)
(* length 0 (null) or 1.  Date.now() is an input of the handler that calls *)
(* it: any of ClockValues, later or earlier than the reading before it     *)
(* (the system clock can be set back), and never 0.  The variables marked  *)
(* history record what was invoked and take no part in what the plugin     *)
(* does.                                                                   *)
(***************************************************************************)
EXTENDS Integers, Sequences, FiniteSets, TLC

-----------------------------------------------------------------------------
(* Bounds of the model *)

\* milliseconds between two readings that the clock of the model can give
ClockStep == 5000
\* Date.now() returns ClockStep, 2*ClockStep, ... or MaxClock*ClockStep
MaxClock == 2
\* logTimeToEditor's computations are checked for 0, 500, ... ms up to
\* MaxHalfSeconds half seconds
MaxHalfSeconds == 140
\* number of handler invocations (commands, clicks, setting changes) in a run
MaxOps == 4
\* the editor cursor is at offset 0..MaxCursor or at the end of the text
MaxCursor == 1
MaxLogs == 4

\* vault paths of the notes
Paths == {"a.md", "b.md"}
\* texts typed into the settings tab
ColumnInputs == {<<"Date">>}
SectionInputs == {<<"Log">>}
\* cursor offsets inside the section header line and inside the header row of
\* the table of a text that logTimeToEditor began
SplitOffsets == {3, 13}

None == <<>>
Some(x) == <<x>>

ClockValues == {k * ClockStep : k \in 1..MaxClock}

-----------------------------------------------------------------------------
(* Pure helpers: numbers and strings as JavaScript computes them *)

\* MathRound with a fault: the quotient is truncated
MathTrunc(num, den) == num \div den

\* Math.round(num / den) for den > 0: nearest integer, halves towards +infinity
MathRound(num, den) == (2 * num + den) \div (2 * den)

\* a % b of JavaScript for b > 0: the remainder has the sign of the dividend
JsRem(a, b) == IF a >= 0 THEN a % b ELSE -((-a) % b)

Digit(d) == CASE d = 0 -> "0" [] d = 1 -> "1" [] d = 2 -> "2" [] d = 3 -> "3"
              [] d = 4 -> "4" [] d = 5 -> "5" [] d = 6 -> "6" [] d = 7 -> "7"
              [] d = 8 -> "8" [] d = 9 -> "9"

RECURSIVE Digits(_)
Digits(n) == IF n < 10 THEN <<Digit(n)>> ELSE Digits(n \div 10) \o <<Digit(n % 10)>>

\* String(n) of an integer
ToStr(n) == IF n < 0 THEN <<"-">> \o Digits(-n) ELSE Digits(n)

\* s.padStart(2, "0")
RECURSIVE PadStart2(_)
PadStart2(s) == IF Len(s) >= 2 THEN s ELSE PadStart2(<<"0">> \o s)

\* Includes with a fault: the text is tested at its start only
IncludesAtStart(text, pat) ==
    Len(pat) <= Len(text) /\ SubSeq(text, 1, Len(pat)) = pat

\* text.includes(pat)
Includes(text, pat) ==
    \E i \in 0..(Len(text) - Len(pat)) : SubSeq(text, i + 1, i + Len(pat)) = pat

\* doc.replaceRange(block, cursor) with the cursor at offset c
ReplaceRange(text, block, c) ==
    SubSeq(text, 1, c) \o block \o SubSeq(text, c + 1, Len(text))

\* a number | null used as a number (null converts to 0)
NumOf(opt) == IF opt = None THEN 0 ELSE opt[1]

-----------------------------------------------------------------------------
(* The plugin *)

DEFAULT_SETTINGS ==
    [startTime        |-> None,
     currentNote      |-> None,
     dateHeader       |-> <<"Starting", " ", "date">>,
     durationHeader   |-> <<"Overall", " ", "duration">>,
     logSectionHeader |-> <<"Time", " ", "Tracking", " ", "Log">>,
     timeTracking     |-> [p \in {} |-> 0]]

VARIABLES
    settings,       \* this.settings
    docs,           \* the text of each note, as its editor holds it
    pending,        \* the saveData calls that have not completed: their snapshots
    disk,           \* the persisted data: None, or Some(snapshot)
    startDisabled,  \* startButton.disabled of the status bar
    notice,         \* the text of the Notice shown last
    step,           \* history: number of handler invocations so far
    last,           \* history: the handler invoked last and its inputs
    session,        \* history: the session started last: its note, the clock at its
                    \* start, the note of the session it overwrote, the clock at
                    \* its stop
    credited,       \* history: per note, the elapsed times of its stopped sessions
    probe           \* the input and the output of logTimeToEditor's computations
                    \* when they are checked alone (SpecLog)

vars == <<settings, docs, pending, disk, startDisabled, notice,
          step, last, session, credited, probe>>

\* the !startTime || !currentNote test of stopTrackingTime
NoSession(s) ==
    \/ s.startTime = None \/ NumOf(s.startTime) = 0
    \/ s.currentNote = None \/ s.currentNote[1] = ""

\* ElapsedTime with a fault: the elapsed time rounded as the display rounds it
ElapsedTimeRounded(currentTime, startTime) ==
    6000 * MathRound(currentTime - NumOf(startTime), 6000)

\* const elapsedTime = currentTime - this.settings.startTime
ElapsedTime(currentTime, startTime) == currentTime - NumOf(startTime)

\* Credit with a fault: the entry is assigned in both branches
CreditOverwrite(tt, note, elapsedTime) ==
    [p \in DOMAIN tt \cup {note} |-> IF p = note THEN elapsedTime ELSE tt[p]]

\* Credit with a fault: the ledger is rebuilt with the entry of the note alone
CreditAlone(tt, note, elapsedTime) ==
    [p \in {note} |-> (IF note \in DOMAIN tt THEN tt[note] ELSE 0) + elapsedTime]

\* the if / else on this.settings.timeTracking[currentNote]
\* Credit with a fault: every entry of the ledger is credited along with note
CreditEvery(tt, note, elapsedTime) ==
    [p \in DOMAIN tt \cup {note} |->
        IF p \in DOMAIN tt THEN tt[p] + elapsedTime ELSE elapsedTime]

Credit(tt, note, elapsedTime) ==
    IF note \in DOMAIN tt /\ tt[note] # 0
        THEN [tt EXCEPT ![note] = tt[note] + elapsedTime]
        ELSE [p \in DOMAIN tt \cup {note} |-> IF p = note THEN elapsedTime ELSE tt[p]]

\* StartSession with a fault: a running session keeps its startTime
StartSessionKeepTime(s, t, path) ==
    [s EXCEPT !.startTime = IF s.startTime = None THEN Some(t) ELSE s.startTime,
              !.currentNote = Some(path)]

\* the two assignments of startTrackingTime
StartSession(s, t, path) ==
    [s EXCEPT !.startTime = Some(t), !.currentNote = Some(path)]

\* StopSession with a fault: currentNote is not cleared
StopSessionKeepNote(s, currentTime) ==
    [s EXCEPT !.startTime = None,
              !.timeTracking = Credit(s.timeTracking, s.currentNote[1],
                                      ElapsedTime(currentTime, s.startTime))]

\* StopSession with a fault: neither session field is cleared
StopSessionKeepBoth(s, currentTime) ==
    [s EXCEPT !.timeTracking = Credit(s.timeTracking, s.currentNote[1],
                                      ElapsedTime(currentTime, s.startTime))]

\* the assignments of stopTrackingTime to this.settings
StopSession(s, currentTime) ==
    [s EXCEPT !.startTime = None,
              !.timeTracking = Credit(s.timeTracking, s.currentNote[1],
                                      ElapsedTime(currentTime, s.startTime)),
              !.currentNote = None]

\* formattedTime of logTimeToEditor; tenths is Math.round(elapsedTime / 6000),
\* so that minutes = tenths / 10
FormattedTime(elapsedTime) ==
    LET tenths           == MathRound(elapsedTime, 6000)
        hours            == tenths \div 600
        remainingMinutes == JsRem(tenths, 600) \div 10
        remainingSeconds == MathRound(JsRem(tenths, 10) * 60, 10)
    IN  PadStart2(ToStr(hours)) \o <<":">> \o PadStart2(ToStr(remainingMinutes))
            \o <<":">> \o PadStart2(ToStr(remainingSeconds))

\* logEntry; "DATE" stands for new Date().toLocaleString()
LogEntry(elapsedTime) ==
    <<"|", " ", "DATE", " ", "|", " ">> \o FormattedTime(elapsedTime)
        \o <<" ", "|", "\n">>

TableHeader(s) ==
    <<"|", " ">> \o s.dateHeader \o <<" ", "|", " ">> \o s.durationHeader
        \o <<" ", "|", "\n">>
        \o <<"|", "-", "-", "-", "-", "-", "-", "|",
             "-", "-", "-", "-", "-", "-", "-", "-", "-", "-", "|", "\n">>

LogSectionHeader(s) == <<"#", "#", " ">> \o s.logSectionHeader

\* NewContent with a fault: the section header is added whatever the text
\* holds
NewContentAlways(content, elapsedTime, s) ==
    LogSectionHeader(s) \o <<"\n", "\n">> \o TableHeader(s)
        \o LogEntry(elapsedTime)

\* NewContent with a fault: the table header is left out when the text holds
\* the section header
NewContentRowOnly(content, elapsedTime, s) ==
    IF Includes(content, LogSectionHeader(s))
        THEN LogEntry(elapsedTime)
        ELSE LogSectionHeader(s) \o <<"\n", "\n">> \o TableHeader(s)
                 \o LogEntry(elapsedTime)

\* newContent of logTimeToEditor
NewContent(content, elapsedTime, s) ==
    IF Includes(content, LogSectionHeader(s))
        THEN TableHeader(s) \o LogEntry(elapsedTime)
        ELSE LogSectionHeader(s) \o <<"\n", "\n">> \o TableHeader(s)
                 \o LogEntry(elapsedTime)

\* the text of the editor after logTimeToEditor, the cursor at offset c
LogTimeToEditor(content, c, elapsedTime, s) ==
    ReplaceRange(content,
                 <<"\n", "\n">> \o NewContent(content, elapsedTime, s) \o <<"\n">>,
                 c)

\* where the cursor of an editor holding text can be: near the start, at an
\* offset of SplitOffsets or at the end
Cursors(text) ==
    {c \in (0..MaxCursor) \cup SplitOffsets : c <= Len(text)} \cup {Len(text)}

NoInput == [op |-> "none", ok |-> FALSE, file |-> None, view |-> "none", cursor |-> 0,
            time |-> 0]

NoProbe == [elapsedMs |-> 0, content |-> <<>>, header |-> <<>>, out |-> None]

\* the plugin after onload with no persisted data
InitPlugin ==
    /\ settings = DEFAULT_SETTINGS
    /\ docs = [p \in Paths |-> <<>>]
    /\ pending = <<>>
    /\ disk = None
    /\ startDisabled = FALSE
    /\ notice = ""
    /\ step = 0
    /\ last = NoInput
    /\ session = None
    /\ credited = [p \in Paths |-> <<>>]

Init == InitPlugin /\ probe = NoProbe

\* history: a session is running
Running == session # None /\ session[1].stop = None

\* SaveSettings with a fault: saveData is not called
SaveSettingsDropped(s) == pending' = pending

\* SaveSettings with a fault: saveData is handed the settings as they were
\* before the handler changed them
SaveSettingsStale(s) == pending' = Append(pending, settings)

\* saveSettings(): saveData is handed the settings as they are at the call
SaveSettings(s) == pending' = Append(pending, s)

\* StartTrackingTime with a fault: startTime is assigned before the test of
\* activeFile
StartTrackingTimeEarly(activeFile, t) ==
    IF activeFile = None
        THEN /\ settings' = [settings EXCEPT !.startTime = Some(t)]
             /\ notice' = "No active file to start tracking time"
             /\ last' = [NoInput EXCEPT !.op = "start"]
             /\ UNCHANGED <<pending, session>>
        ELSE /\ settings' = StartSession(settings, t, activeFile[1])
             /\ SaveSettings(settings')
             /\ notice' = "Time tracking started"
             /\ last' = [NoInput EXCEPT !.op = "start", !.ok = TRUE,
                                        !.file = activeFile, !.time = t]
             /\ session' = Some([note     |-> activeFile[1],
                                 start    |-> t,
                                 replaced |-> IF Running THEN Some(session[1].note)
                                                         ELSE None,
                                 stop     |-> None,
                                 reloaded |-> FALSE])

\* startTrackingTime(); activeFile is what getActiveFile() returns and t what
\* Date.now() returns
StartTrackingTime(activeFile, t) ==
    IF activeFile = None
        THEN /\ notice' = "No active file to start tracking time"
             /\ last' = [NoInput EXCEPT !.op = "start"]
             /\ UNCHANGED <<settings, pending, session>>
        ELSE /\ settings' = StartSession(settings, t, activeFile[1])
             /\ SaveSettings(settings')
             /\ notice' = "Time tracking started"
             /\ last' = [NoInput EXCEPT !.op = "start", !.ok = TRUE,
                                        !.file = activeFile, !.time = t]
             /\ session' = Some([note     |-> activeFile[1],
                                 start    |-> t,
                                 replaced |-> IF Running THEN Some(session[1].note)
                                                         ELSE None,
                                 stop     |-> None,
                                 reloaded |-> FALSE])

\* the command "start-tracking-time"
StartCommand ==
    /\ step < MaxOps
    /\ \E activeFile \in {None} \cup {Some(p) : p \in Paths} :
          \E t \in ClockValues : StartTrackingTime(activeFile, t)
    /\ step' = step + 1
    /\ UNCHANGED <<docs, disk, startDisabled, credited>>
    /\ UNCHANGED probe

\* a click on the Start button of the status bar
StartClick ==
    /\ step < MaxOps
    /\ ~startDisabled
    /\ \E activeFile \in {None} \cup {Some(p) : p \in Paths} :
          \E t \in ClockValues : StartTrackingTime(activeFile, t)
    /\ startDisabled' = TRUE
    /\ step' = step + 1
    /\ UNCHANGED <<docs, disk, credited>>
    /\ UNCHANGED probe

\* StopFailed with a fault: the settings are saved before the return
StopFailedSaving ==
    /\ notice' = "No tracking session in progress"
    /\ last' = [NoInput EXCEPT !.op = "stop"]
    /\ pending' = Append(pending, settings)
    /\ UNCHANGED <<settings, docs, startDisabled, session, credited>>

\* stopTrackingTime() when no session is in progress
StopFailed ==
    /\ notice' = "No tracking session in progress"
    /\ last' = [NoInput EXCEPT !.op = "stop"]
    /\ UNCHANGED <<settings, docs, pending, startDisabled, session, credited>>

\* LoggedTime with a fault: the total of the note is logged
LoggedTimeTotal(elapsedTime, tt) == tt[settings.currentNote[1]]

\* the duration stopTrackingTime hands to logTimeToEditor; tt is timeTracking
\* as it is at the call
LoggedTime(elapsedTime, tt) == elapsedTime

\* stopTrackingTime() from the reading of the clock to the await of
\* saveSettings.  view is the active leaf: "none" (no leaf), "other" (a view
\* that is no MarkdownView) or "markdown" (the editor of the note file, its
\* cursor at offset c); t is what Date.now() returns
StopTracked(view, file, c, t) ==
    LET elapsedTime == ElapsedTime(t, settings.startTime) IN
    /\ settings' = StopSession(settings, t)
    /\ IF view = "markdown"
           THEN /\ docs' = [docs EXCEPT ![file[1]] =
                               LogTimeToEditor(docs[file[1]], c,
                                   LoggedTime(elapsedTime, settings'.timeTracking),
                                   settings)]
                /\ notice' = "Time logged successfully"
           ELSE /\ docs' = docs
                /\ notice' = IF view = "other"
                                 THEN "No active Markdown file to log time"
                                 ELSE "No active file to log time"
    /\ startDisabled' = FALSE
    /\ SaveSettings(settings')
    /\ last' = [op |-> "stop", ok |-> TRUE, file |-> file, view |-> view, cursor |-> c,
                 time |-> t]
    /\ IF Running
           THEN /\ session' = Some([session[1] EXCEPT !.stop = Some(t)])
                /\ credited' = [credited EXCEPT ![session[1].note] =
                                   Append(@, t - session[1].start)]
           ELSE UNCHANGED <<session, credited>>

\* the command "stop-tracking-time" and a click on the Stop button
Stop ==
    /\ step < MaxOps
    /\ IF NoSession(settings)
           THEN StopFailed
           ELSE \E t \in ClockValues :
                   \/ \E view \in {"none", "other"} : StopTracked(view, None, 0, t)
                   \/ \E p \in Paths : \E c \in Cursors(docs[p]) :
                         StopTracked("markdown", Some(p), c, t)
    /\ step' = step + 1
    /\ UNCHANGED disk
    /\ UNCHANGED probe

\* onChange of the three text fields of the settings tab
SetDateHeader ==
    /\ step < MaxOps
    /\ \E value \in ColumnInputs :
          settings' = [settings EXCEPT !.dateHeader = value]
    /\ SaveSettings(settings')
    /\ step' = step + 1
    /\ last' = [NoInput EXCEPT !.op = "set", !.ok = TRUE]
    /\ UNCHANGED <<docs, disk, startDisabled, notice, session, credited>>
    /\ UNCHANGED probe

SetDurationHeader ==
    /\ step < MaxOps
    /\ \E value \in ColumnInputs :
          settings' = [settings EXCEPT !.durationHeader = value]
    /\ SaveSettings(settings')
    /\ step' = step + 1
    /\ last' = [NoInput EXCEPT !.op = "set", !.ok = TRUE]
    /\ UNCHANGED <<docs, disk, startDisabled, notice, session, credited>>
    /\ UNCHANGED probe

SetLogSectionHeader ==
    /\ step < MaxOps
    /\ \E value \in SectionInputs :
          settings' = [settings EXCEPT !.logSectionHeader = value]
    /\ SaveSettings(settings')
    /\ step' = step + 1
    /\ last' = [NoInput EXCEPT !.op = "set", !.ok = TRUE]
    /\ UNCHANGED <<docs, disk, startDisabled, notice, session, credited>>
    /\ UNCHANGED probe

\* a saveData call completes: its snapshot is what is persisted
\* SaveComplete with a fault: the session fields are cleared when the save
\* completes, as if stopTrackingTime cleared them after its await
SaveCompleteClearing ==
    /\ pending # <<>>
    /\ disk' = Some(Head(pending))
    /\ pending' = Tail(pending)
    /\ settings' = [settings EXCEPT !.startTime = None, !.currentNote = None]
    /\ UNCHANGED <<docs, startDisabled, notice, step, last, session, credited>>
    /\ UNCHANGED probe

SaveComplete ==
    /\ pending # <<>>
    /\ disk' = Some(Head(pending))
    /\ pending' = Tail(pending)
    /\ UNCHANGED <<settings, docs, startDisabled, notice, step, last, session,
                   credited>>
    /\ UNCHANGED probe

Next ==
    \/ StartCommand
    \/ StartClick
    \/ Stop
    \/ SetDateHeader
    \/ SetDurationHeader
    \/ SetLogSectionHeader
    \/ SaveComplete

Spec == Init /\ [][Next]_vars

\* Object.assign(target, source): the keys of source laid over those of target
ObjectAssign(target, source) ==
    [k \in DOMAIN target \cup DOMAIN source |->
        IF k \in DOMAIN source THEN source[k] ELSE target[k]]

\* what loadData() resolves to becomes the source of the merge; null adds no key
LoadData(d) == IF d = None THEN [k \in {} |-> None] ELSE d[1]

\* LoadSettings with a fault: the defaults are laid over the loaded data
LoadSettingsDefaultsLast(d) ==
    ObjectAssign(ObjectAssign([k \in {} |-> None], LoadData(d)), DEFAULT_SETTINGS)

\* this.settings after loadSettings, d the data on disk
LoadSettings(d) ==
    ObjectAssign(ObjectAssign([k \in {} |-> None], DEFAULT_SETTINGS), LoadData(d))

\* the plugin is loaded again (restart): the settings are read from disk, saves
\* not yet completed are lost, the status bar is built anew
Onload ==
    /\ step < MaxOps
    /\ settings' = LoadSettings(disk)
    /\ pending' = <<>>
    /\ startDisabled' = FALSE
    /\ last' = [NoInput EXCEPT !.op = "load", !.ok = TRUE]
    /\ step' = step + 1
    /\ session' = IF ~NoSession(settings')
                      THEN Some([note     |-> settings'.currentNote[1],
                                 start    |-> settings'.startTime[1],
                                 replaced |-> None,
                                 stop     |-> None,
                                 reloaded |-> TRUE])
                      ELSE None
    /\ UNCHANGED <<docs, disk, notice, credited, probe>>

NextReload == Next \/ Onload

SpecReload == Init /\ [][NextReload]_vars

-----------------------------------------------------------------------------
(* The computations of logTimeToEditor alone *)

\* elapsed times up to MaxHalfSeconds half seconds, and some around the hour,
\* a hundred hours and a day
FormatInputs ==
    {i * 500 : i \in 0..MaxHalfSeconds}
        \cup {3596999, 3597000, 3600000, 3659000, 35999000, 359996999,
              359997000, 360000000, 86400000}

\* texts of the editor and values of the logSectionHeader setting
ProbeTexts ==
    {<<>>,
     <<"#", "#", " ", "Log", "\n">>,
     <<"intro", "\n", "#", "#", " ", "Log", "\n", "x">>,
     <<"#", "#", " ", "Log", "2">>,
     <<"#", " ", "Log">>,
     <<"#", "#", " ">>,
     <<"x", "#", "#", " ", "Time", " ", "Tracking", " ", "Log">>}
ProbeHeaders == {DEFAULT_SETTINGS.logSectionHeader, <<"Log">>, <<"Log", "2">>, <<>>}

InitLog ==
    /\ InitPlugin
    /\ probe \in [elapsedMs : FormatInputs, content : ProbeTexts,
                   header : ProbeHeaders, out : {None}]

\* formattedTime and newContent as logTimeToEditor computes them
FormatLog ==
    /\ probe.out = None
    /\ probe' = [probe EXCEPT !.out = Some(
           [formattedTime |-> FormattedTime(probe.elapsedMs),
            newContent    |-> NewContent(probe.content, probe.elapsedMs,
                                 [DEFAULT_SETTINGS EXCEPT
                                     !.logSectionHeader = probe.header])])]
    /\ UNCHANGED <<settings, docs, pending, disk, startDisabled, notice,
                   step, last, session, credited>>

SpecLog == InitLog /\ [][FormatLog]_vars

-----------------------------------------------------------------------------
(* Properties *)

Ledger == settings.timeTracking

\* the value the ledger tt holds for note p, 0 when it has no entry
LedgerAt(tt, p) == IF p \in DOMAIN tt THEN tt[p] ELSE 0

\* both session fields of s are present
Active(s) == s.startTime # None /\ s.currentNote # None

\* both session fields of s are absent
Cleared(s) == s.startTime = None /\ s.currentNote = None

RECURSIVE Sum(_)
Sum(seq) == IF seq = <<>> THEN 0 ELSE Head(seq) + Sum(Tail(seq))

\* number of places where pat occurs in text
Count(text, pat) ==
    Cardinality({i \in 0..(Len(text) - Len(pat)) :
                    SubSeq(text, i + 1, i + Len(pat)) = pat})

\* the log row of a duration of ms milliseconds
Row(ms) == <<"|", " ", "DATE", " ", "|", " ">> \o FormattedTime(ms) \o <<" ", "|", "\n">>

\* this step is an invocation of the handler op
Invoked(op) == step' # step /\ last'.op = op

\* C1: a stop() that follows a successful start(D), e >= 0 ms after it on the
\* clock, succeeds and makes ledger[D] its former value (0 when D had no
\* entry) plus exactly e, the unrounded count, D having an entry afterwards
\* also when e = 0; no other entry is created or changed.
C1_StopCreditsElapsed ==
    [][(Invoked("stop") /\ Running) =>
          LET D == session[1].note
              e == last'.time - session[1].start
          IN  /\ last'.ok
              /\ e >= 0 =>
                    /\ DOMAIN Ledger' = DOMAIN Ledger \cup {D}
                    /\ Ledger'[D] = LedgerAt(Ledger, D) + e
                    /\ \A p \in DOMAIN Ledger \ {D} : Ledger'[p] = Ledger[p]]_vars

\* C1 witness: a session of e > 0 ms on a note without entry was stopped and
\* the entry holds e, which the minute rounding of the display would change.
C1_Witness ==
    /\ last.op = "stop" /\ last.ok
    /\ session # None /\ session[1].stop # None
    /\ session[1].stop[1] - session[1].start = ClockStep
    /\ credited[session[1].note] = <<ClockStep>>
    /\ Ledger[session[1].note] = ClockStep
    /\ ClockStep # 6000 * MathRound(ClockStep, 6000)

\* C2: stop() with no active session shows "No tracking session in progress"
\* and leaves the settings (ledger, both session fields), every note's text and
\* the issued saves as they were.
C2_StopWithoutSession ==
    [][(Invoked("stop") /\ ~Active(settings)) =>
          /\ notice' = "No tracking session in progress"
          /\ ~last'.ok
          /\ UNCHANGED <<settings, docs, pending>>]_vars

\* C2 witness: a stop() was refused while the ledger held an entry.
C2_Witness ==
    /\ last.op = "stop" /\ ~last.ok
    /\ notice = "No tracking session in progress"
    /\ ~Active(settings)
    /\ DOMAIN Ledger # {}

\* C3: no start changes the ledger; a start(D2) made while the session of D1
\* is running records the new clock reading and D2; the stop() that follows
\* changes the entry of D2 alone, by the time since the second start, so that
\* D1 gets no entry and no credit (nor does the time between the two starts
\* when D1 = D2).
C3_OverwrittenSessionDiscarded ==
    [][/\ Invoked("start") => Ledger' = Ledger
       /\ (Invoked("start") /\ last'.ok /\ Running) =>
             /\ settings'.startTime = Some(last'.time)
             /\ settings'.currentNote = last'.file
       /\ (Invoked("stop") /\ Running /\ session[1].replaced # None) =>
             /\ last'.ok
             /\ \A p \in Paths :
                   LedgerAt(Ledger', p) =
                       LedgerAt(Ledger, p)
                         + (IF p = session[1].note
                               THEN last'.time - session[1].start ELSE 0)
             /\ DOMAIN Ledger' = DOMAIN Ledger \cup {session[1].note}]_vars

\* C3 witness: the session of another note was overwritten, the overwriting
\* session ran for ClockStep ms and was stopped, and the overwritten note has
\* no ledger entry.
C3_Witness ==
    /\ last.op = "stop" /\ last.ok
    /\ session # None /\ session[1].stop # None
    /\ session[1].replaced # None
    /\ session[1].replaced[1] # session[1].note
    /\ session[1].stop[1] - session[1].start = ClockStep
    /\ session[1].replaced[1] \notin DOMAIN Ledger
    /\ Ledger[session[1].note] = ClockStep

\* C4: for every note the ledger holds the sum of the elapsed times of the
\* sessions on it that a successful stop() ended (no entry when there is
\* none), and it has entries for such notes only.
C4_LedgerIsSumOfStoppedSessions ==
    /\ \A p \in Paths : LedgerAt(Ledger, p) = Sum(credited[p])
    /\ DOMAIN Ledger = {p \in Paths : credited[p] # <<>>}

\* C4 witness: two sessions of e1, e2 > 0 ms on the same note were stopped.
C4_Witness ==
    \E p \in Paths :
        /\ Len(credited[p]) = 2
        /\ credited[p][1] > 0 /\ credited[p][2] > 0
        /\ Ledger[p] = credited[p][1] + credited[p][2]

\* C5: between handlers startTime is present iff currentNote is present, in
\* the settings and in every snapshot handed to saveData.
C5_SessionFieldsTogether ==
    \A s \in {settings} \cup {pending[i] : i \in DOMAIN pending}
                        \cup {disk[i] : i \in DOMAIN disk} :
        (s.startTime = None) <=> (s.currentNote = None)

\* C5 witness: a session was started and then stopped: both fields were set,
\* and both are cleared.
C5_Witness ==
    /\ last.op = "stop" /\ last.ok
    /\ Cleared(settings)
    /\ \E i \in DOMAIN pending : Active(pending[i])

\* C6 as claimed: every ledger value is a non-negative integer.
C6_LedgerNonNegative ==
    \A p \in DOMAIN Ledger : Ledger[p] >= 0

\* C7: a successful stop() leaves both session fields absent; they become
\* present again only by a successful start; a stop() invoked right after a
\* successful stop() shows "No tracking session in progress" and leaves the
\* ledger as it is.
C7_StoppedStaysInactive ==
    [][/\ (Invoked("stop") /\ last'.ok) => Cleared(settings')
       /\ (~Active(settings) /\ (settings'.startTime # None
                                    \/ settings'.currentNote # None)) =>
             (Invoked("start") /\ last'.ok)
       /\ (Invoked("stop") /\ last.op = "stop" /\ last.ok) =>
             /\ notice' = "No tracking session in progress"
             /\ ~last'.ok
             /\ Ledger' = Ledger]_vars

\* C7 witness: a stop() was refused, the session started last having been
\* stopped before it.
C7_Witness ==
    /\ last.op = "stop" /\ ~last.ok
    /\ notice = "No tracking session in progress"
    /\ session # None /\ session[1].stop # None
    /\ Cleared(settings)

\* C8: stop() with an active session and no MarkdownView focused adds the
\* elapsed time to the entry of the session's note, clears both session
\* fields, hands the resulting settings to saveData and changes no note's text.
C8_StopWithoutEditor ==
    [][(Invoked("stop") /\ Active(settings) /\ last'.view # "markdown") =>
          LET D == settings.currentNote[1] IN
          /\ last'.ok
          /\ notice' \in {"No active Markdown file to log time",
                          "No active file to log time"}
          /\ D \in DOMAIN Ledger'
          /\ Ledger'[D] = LedgerAt(Ledger, D) + (last'.time - settings.startTime[1])
          /\ Cleared(settings')
          /\ pending' = Append(pending, settings')
          /\ docs' = docs]_vars

\* C8 witness: a session of ClockStep ms was stopped with a view focused that
\* is no MarkdownView; it was credited and no note has any text.
C8_Witness ==
    /\ last.op = "stop" /\ last.ok /\ last.view = "other"
    /\ notice = "No active Markdown file to log time"
    /\ session[1].stop[1] - session[1].start = ClockStep
    /\ Ledger[session[1].note] = ClockStep
    /\ \A p \in Paths : docs[p] = <<>>
    /\ pending # <<>> /\ pending[Len(pending)] = settings

\* C9: start with no active file shows "No active file to start tracking
\* time" and leaves the settings (ledger, startTime, currentNote), the issued
\* saves and every note's text as they were.
C9_StartWithoutFile ==
    [][(Invoked("start") /\ last'.file = None) =>
          /\ notice' = "No active file to start tracking time"
          /\ ~last'.ok
          /\ UNCHANGED <<settings, docs, pending>>]_vars

\* C9 witness: a start was refused while a session was active, and the
\* session is still the one started before.
C9_Witness ==
    /\ last.op = "start" /\ ~last.ok
    /\ notice = "No active file to start tracking time"
    /\ Running
    /\ settings.startTime = Some(session[1].start)
    /\ settings.currentNote = Some(session[1].note)

\* C10: no step removes a ledger entry, a start changes nothing of the
\* ledger, and the ledger changes in a successful stop() only.
C10_LedgerOnlyGrows ==
    [][/\ DOMAIN Ledger \subseteq DOMAIN Ledger'
       /\ Invoked("start") => Ledger' = Ledger
       /\ Ledger' # Ledger => (Invoked("stop") /\ last'.ok)]_vars

\* C10 witness: a session on each of the two notes was stopped and the ledger
\* holds both entries, the earlier one with the value it was given.
C10_Witness ==
    /\ last.op = "stop" /\ last.ok
    /\ DOMAIN Ledger = Paths
    /\ \A p \in Paths : credited[p] = <<ClockStep>> /\ Ledger[p] = ClockStep

\* C11: a stop() that logs into an editor leaves in its text the row of the
\* elapsed time of the session, currentTime - startTime, and adds no row of
\* the total of the note when the two are displayed differently.
C11_RowShowsSessionTime ==
    [][(Invoked("stop") /\ Active(settings) /\ last'.view = "markdown") =>
          LET D     == settings.currentNote[1]
              f     == last'.file[1]
              e     == last'.time - settings.startTime[1]
              total == Ledger'[D]
          IN  /\ Count(docs'[f], Row(e)) >= 1
              /\ Count(docs'[f], Row(e)) >= Count(docs[f], Row(e))
              /\ FormattedTime(total) # FormattedTime(e) =>
                    Count(docs'[f], Row(total)) <= Count(docs[f], Row(total))]_vars

\* C11 witness: the second session on a note was logged; its row shows
\* 00:00:06 for its 5 s and no row shows the 00:00:12 of the 10 s total.
C11_Witness ==
    \E p \in Paths : \E f \in Paths :
        /\ last.op = "stop" /\ last.ok /\ last.view = "markdown" /\ last.file = Some(f)
        /\ session[1].note = p
        /\ credited[p] = <<ClockStep, ClockStep>>
        /\ Ledger[p] = 2 * ClockStep
        /\ FormattedTime(ClockStep) # FormattedTime(2 * ClockStep)
        /\ Count(docs[f], Row(ClockStep)) >= 1
        /\ Count(docs[f], Row(2 * ClockStep)) = 0

DigitChars == {"0", "1", "2", "3", "4", "5", "6", "7", "8", "9"}

DigitValue(c) == CHOOSE d \in 0..9 : Digit(d) = c

\* seq is a decimal numeral
IsNumeral(seq) == seq # <<>> /\ \A i \in DOMAIN seq : seq[i] \in DigitChars

\* the number a decimal numeral denotes
RECURSIVE Value(_)
Value(seq) ==
    IF seq = <<>> THEN 0
    ELSE 10 * Value(SubSeq(seq, 1, Len(seq) - 1)) + DigitValue(seq[Len(seq)])

\* C12: for elapsedMs >= 0 the formatted duration is HH:MM:SS, each of two
\* digits or more, denoting T = 6 * k seconds, k being elapsedMs / 6000
\* rounded half up: HH = T div 3600, MM = (T div 60) mod 60, SS = T mod 60;
\* MM and SS are below 60, SS is a multiple of 6, T is within 3 s of the
\* elapsed time, and 65000 ms gives 00:01:06.
C12_FormattedTime ==
    probe.out # None =>
        LET e  == probe.elapsedMs
            f  == probe.out[1].formattedTime
            n  == Len(f)
            k  == CHOOSE j \in 0..(e \div 6000 + 1) :
                      6000 * j - 3000 <= e /\ e < 6000 * j + 3000
            T  == 6 * k
            HH == SubSeq(f, 1, n - 6)
            MM == SubSeq(f, n - 4, n - 3)
            SS == SubSeq(f, n - 1, n)
        IN  /\ n >= 8 /\ f[n - 5] = ":" /\ f[n - 2] = ":"
            /\ IsNumeral(HH) /\ IsNumeral(MM) /\ IsNumeral(SS)
            /\ Value(HH) = T \div 3600
            /\ Value(MM) = (T \div 60) % 60
            /\ Value(SS) = T % 60
            /\ Value(MM) < 60 /\ Value(SS) < 60 /\ Value(SS) % 6 = 0
            /\ 1000 * T - e <= 3000 /\ e - 1000 * T <= 3000
            /\ e = 65000 => f = <<"0", "0", ":", "0", "1", ":", "0", "6">>

\* C12 witness: 65000 ms were formatted as 00:01:06.
C12_Witness ==
    /\ probe.elapsedMs = 65000
    /\ probe.out # None
    /\ probe.out[1].formattedTime = <<"0", "0", ":", "0", "1", ":", "0", "6">>

\* C13: when the text does not contain "## <logSectionHeader>" the block
\* begins with it and a blank line, followed by the table header and the row;
\* when the text contains it the block is the table header and the row alone,
\* with no section header in it.
C13_SectionHeaderOnce ==
    probe.out # None =>
        LET text     == probe.content
            H        == <<"#", "#", " ">> \o probe.header
            nc       == probe.out[1].newContent
            contains == \E i \in 0..Len(text) : \E j \in i..Len(text) :
                            SubSeq(text, i + 1, j) = H
            table    == <<"|", " ", "Starting", " ", "date", " ", "|", " ",
                          "Overall", " ", "duration", " ", "|", "\n",
                          "|", "-", "-", "-", "-", "-", "-", "|",
                          "-", "-", "-", "-", "-", "-", "-", "-", "-", "-", "|", "\n">>
        IN  IF contains
                THEN nc = table \o Row(probe.elapsedMs) /\ Count(nc, H) = 0
                ELSE nc = H \o <<"\n", "\n">> \o table \o Row(probe.elapsedMs)

\* C13 witness: a text holding "## Log" after other text got a block without
\* section header.
C13_Witness ==
    /\ probe.content = <<"intro", "\n", "#", "#", " ", "Log", "\n", "x">>
    /\ probe.header = <<"Log">>
    /\ probe.out # None
    /\ Head(probe.out[1].newContent) = "|"

RowStart == <<"|", " ", "DATE", " ", "|", " ">>

\* the cursor offset c is inside an occurrence of pat in text: after its first
\* atom, before its last
Inside(text, pat, c) ==
    \E i \in 0..(Len(text) - Len(pat)) :
        SubSeq(text, i + 1, i + Len(pat)) = pat /\ i < c /\ c < i + Len(pat)

\* C15 as claimed: every stop() that logs into an editor raises by one the
\* number of table headers and the number of log rows of its text.
C15_OneHeaderAndRowMore ==
    [][(Invoked("stop") /\ last'.view = "markdown") =>
          LET f  == last'.file[1]
              TH == TableHeader(settings)
          IN  /\ Count(docs'[f], TH) = Count(docs[f], TH) + 1
              /\ Count(docs'[f], RowStart) = Count(docs[f], RowStart) + 1]_vars

\* C15 amended: every stop() that logs into an editor inserts at the cursor
\* one block holding exactly one table header and exactly one log row,
\* whether or not the text holds a table; the numbers of table headers and
\* of log rows of the text grow by at most one, and by exactly one when the
\* cursor is not inside a table header or a log row of the text.
C15_BlockHasOneHeaderAndRow ==
    [][(Invoked("stop") /\ last'.view = "markdown") =>
          LET f     == last'.file[1]
              c     == last'.cursor
              TH    == TableHeader(settings)
              old   == docs[f]
              new   == docs'[f]
              block == SubSeq(new, c + 1, c + Len(new) - Len(old))
          IN  /\ Len(new) > Len(old)
              /\ new = SubSeq(old, 1, c) \o block \o SubSeq(old, c + 1, Len(old))
              /\ Count(block, TH) = 1
              /\ Count(block, RowStart) = 1
              /\ Count(new, TH) <= Count(old, TH) + 1
              /\ Count(new, RowStart) <= Count(old, RowStart) + 1
              /\ ~Inside(old, TH, c) => Count(new, TH) = Count(old, TH) + 1
              /\ ~Inside(old, RowStart, c) =>
                    Count(new, RowStart) = Count(old, RowStart) + 1]_vars

\* C15 witness: two sessions were logged into the same note, the second with
\* the cursor inside the header row of the first table: the text holds two
\* log rows and one table header.
C15_Witness ==
    \E f \in Paths :
        /\ last.op = "stop" /\ last.ok /\ last.view = "markdown"
        /\ last.file = Some(f) /\ last.cursor = 13
        /\ Count(docs[f], RowStart) = 2
        /\ Count(docs[f], TableHeader(settings)) = 1

-----------------------------------------------------------------------------
\* logTimeToEditor called again and again on one text, the section header
\* setting held fixed

InsertHeaders == {<<"Log">>, <<"C", "#">>, <<>>}

\* cursor offsets in and just after the first section header line, inside the
\* first table header, and the end of the text
InsertCursors(text, s) ==
    {c \in 0..Len(text) :
        \/ c <= Len(LogSectionHeader(s)) + 2 + MaxCursor
        \/ c \in SplitOffsets
        \/ c = Len(text)}

InitInsert ==
    /\ settings \in {[DEFAULT_SETTINGS EXCEPT !.logSectionHeader = h] :
                        h \in InsertHeaders}
    /\ docs = [p \in Paths |-> <<>>]
    /\ pending = <<>>
    /\ disk = None
    /\ startDisabled = FALSE
    /\ notice = ""
    /\ step = 0
    /\ last = NoInput
    /\ session = None
    /\ credited = [p \in Paths |-> <<>>]
    /\ probe = NoProbe

LogSession ==
    /\ step < MaxLogs
    /\ \E c \in InsertCursors(docs["a.md"], settings) :
          /\ docs' = [docs EXCEPT !["a.md"] =
                         LogTimeToEditor(docs["a.md"], c, ClockStep, settings)]
          /\ last' = [NoInput EXCEPT !.op = "log", !.ok = TRUE,
                         !.file = Some("a.md"), !.view = "markdown",
                         !.cursor = c]
    /\ step' = step + 1
    /\ UNCHANGED <<settings, pending, disk, startDisabled, notice, session,
                   credited, probe>>

SpecInsert == InitInsert /\ [][LogSession]_vars

\* the number of lines of text that are exactly pat (pat holds no line break)
LineCount(text, pat) ==
    Cardinality({i \in 0..(Len(text) - Len(pat)) :
                    /\ SubSeq(text, i + 1, i + Len(pat)) = pat
                    /\ i = 0 \/ text[i] = "\n"
                    /\ i + Len(pat) = Len(text) \/ text[i + Len(pat) + 1] = "\n"})

\* C16: with the section header setting fixed, whatever the cursors of the
\* sessions logged into a text, the text holds the section header at most
\* once, as a line or as a part of one.
C16_AtMostOneSectionHeader ==
    LET H == LogSectionHeader(settings)
    IN  \A p \in Paths :
            /\ Count(docs[p], H) <= 1
            /\ LineCount(docs[p], H) <= 1

\* C16 witness: three sessions were logged into one text, the last with the
\* cursor inside the text, and the text holds three rows and one section
\* header line.
C16_Witness ==
    /\ last.op = "log" /\ step = 3
    /\ last.cursor > 0 /\ last.cursor < Len(docs["a.md"]) - 1
    /\ Count(docs["a.md"], RowStart) = 3
    /\ LineCount(docs["a.md"], LogSectionHeader(settings)) = 1

\* C17: a stop() made while an editor of another note D2 is focused credits
\* the note D1 recorded at start with the elapsed time, leaves the ledger
\* entry of D2 as it was (absent or the same value), and inserts the log row
\* into the text of D2, not of D1.
C17_CreditsNoteRecordedAtStart ==
    [][(/\ Invoked("stop") /\ Running /\ last'.view = "markdown"
        /\ last'.file # settings.currentNote) =>
          LET D1 == settings.currentNote[1]
              D2 == last'.file[1]
              e  == last'.time - settings.startTime[1]
          IN  /\ D1 = session[1].note
              /\ D1 \in DOMAIN Ledger'
              /\ Ledger'[D1] = LedgerAt(Ledger, D1) + e
              /\ (D2 \in DOMAIN Ledger') = (D2 \in DOMAIN Ledger)
              /\ LedgerAt(Ledger', D2) = LedgerAt(Ledger, D2)
              /\ Count(docs'[D2], RowStart) = Count(docs[D2], RowStart) + 1
              /\ docs'[D1] = docs[D1]]_vars

\* C17 witness: a session started on a note was stopped e > 0 ms later with
\* the editor of another note focused, which had an entry of its own: the
\* started note holds e and no row, the focused note holds a row more.
C17_Witness ==
    \E D1, D2 \in Paths :
        /\ D1 # D2
        /\ last.op = "stop" /\ last.ok /\ last.view = "markdown"
        /\ last.file = Some(D2)
        /\ session # None /\ session[1].note = D1 /\ session[1].stop # None
        /\ session[1].stop[1] - session[1].start = ClockStep
        /\ Ledger = (D1 :> ClockStep) @@ (D2 :> ClockStep)
        /\ credited[D2] = <<ClockStep>>
        /\ docs[D1] = <<>>
        /\ Count(docs[D2], RowStart) = 1

\* C18: stop() makes all its changes (credit, both session fields cleared)
\* before it issues its save, and the completion of a save changes nothing of
\* the tracker's state; so a session started while the save of a stop is
\* pending stays active with its own startTime and note when that save
\* completes, and every stopped session is in the ledger exactly once.
C18_StopChangesBeforeItsSave ==
    [][/\ (Invoked("stop") /\ Running) =>
              /\ Cleared(settings')
              /\ pending' = Append(pending, settings')
       /\ step' = step =>
              UNCHANGED <<settings, docs, startDisabled, notice, session, credited>>
       /\ Running' =>
              /\ settings'.startTime = Some(session'[1].start)
              /\ settings'.currentNote = Some(session'[1].note)
       /\ \A p \in Paths : LedgerAt(Ledger', p) = Sum(credited'[p])]_vars

\* C18 witness: a session on a.md was stopped and, the save of that stop
\* still pending, another was started on b.md: the new session is active with
\* its own startTime and note, the first is credited once.
C18_Witness ==
    /\ last.op = "start" /\ last.ok
    /\ Len(pending) = 2
    /\ Cleared(pending[1])
    /\ pending[1].timeTracking = ("a.md" :> ClockStep)
    /\ pending[2] = settings
    /\ Running
    /\ session[1].start = 2 * ClockStep
    /\ settings.startTime = Some(2 * ClockStep)
    /\ settings.currentNote = Some("b.md")
    /\ credited = [p \in Paths |-> IF p = "a.md" THEN <<ClockStep>> ELSE <<>>]
    /\ Ledger = ("a.md" :> ClockStep)

\* C19 as claimed: whenever the Start button of the status bar is disabled a
\* session is active, so with no session the button can be clicked.
C19_DisabledOnlyWhileActive == startDisabled => Active(settings)

\* C20: when the plugin is loaded again the settings are the ones last saved
\* (the defaults with no save); so with a session active and its save
\* completed, the session is active after the load with the same startTime
\* and note and the same ledger, and the stop() of a session so reloaded
\* credits its note with the time since the original start.
C20_SessionSurvivesReload ==
    [][/\ Invoked("load") =>
              settings' = IF disk = None THEN DEFAULT_SETTINGS ELSE disk[1]
       /\ (Invoked("load") /\ Running /\ disk = Some(settings)) =>
              /\ Active(settings')
              /\ settings'.startTime = Some(session[1].start)
              /\ settings'.currentNote = Some(session[1].note)
              /\ Ledger' = Ledger
              /\ Running' /\ session'[1].reloaded
              /\ session'[1].start = session[1].start
              /\ session'[1].note = session[1].note
       /\ (Invoked("stop") /\ Running /\ session[1].reloaded) =>
              LET D == session[1].note
                  e == last'.time - session[1].start
              IN  /\ last'.ok
                  /\ Cleared(settings')
                  /\ D \in DOMAIN Ledger'
                  /\ Ledger'[D] = LedgerAt(Ledger, D) + e
                  /\ \A p \in DOMAIN Ledger \ {D} : Ledger'[p] = Ledger[p]]_vars

\* C20 witness: a session started at ClockStep was saved, the plugin was
\* loaded again, and a stop at 2 * ClockStep credited the note with ClockStep.
C20_Witness ==
    /\ last.op = "stop" /\ last.ok /\ last.time = 2 * ClockStep
    /\ session # None /\ session[1].reloaded /\ session[1].stop = Some(2 * ClockStep)
    /\ session[1].start = ClockStep
    /\ credited[session[1].note] = <<ClockStep>>
    /\ Ledger = (session[1].note :> ClockStep)
    /\ Cleared(settings)

=============================================================================
